---- MODULE Spec2Model ----
(***************************************************************************)
(* SnapshotMap of packages/storage-plus/src/snapshot.rs: a map over a      *)
(* byte-keyed store that keeps, next to the primary table, a changelog of  *)
(* the value each key held before every checkpointed write, and answers    *)
(* historical reads from it.                                               *)
(*                                                                         *)
(* The state is the underlying store (MockStorage): a finite function from *)
(* storage keys to stored bytes.  A storage key is the pair                *)
(* <<namespace, key bytes>>, the namespace being length-prefixed in the    *)
(* real encoding, so that the pair is determined by the real key.          *)
(* SnapshotMap instances are stateless facades (three namespaces and a     *)
(* strategy).  The other variables record the calls made so far.           *)
(***************************************************************************)
EXTENDS Integers, Sequences, FiniteSets, TLC

VARIABLES
    store,      \* the underlying Storage: storage key -> stored bytes
    maps,       \* the SnapshotMap instances in use (fixed after construction)
    log,        \* history: the completed writes, in call order
    lastCall,   \* history: the last call made and what it returned
    nops        \* history: number of calls made

vars == <<store, maps, log, lastCall, nops>>

---------------------------------------------------------------------------
(* Bounds of the model *)

MaxOps == 2
MaxHeight == 2
MaxValue == 2

(* Width of an encoded height (U64Key: big-endian u64) and of the length   *)
(* prefix put before every key part but the last.                         *)
HeightBytes == 8
LenBytes == 2

Values == 1..MaxValue
Heights == 0..MaxHeight
QueryHeights == 0..(MaxHeight + 1)

KeyA == <<65>>
KeyB == <<66>>
Keys == {KeyA, KeyB}

---------------------------------------------------------------------------
(* Option<T> and results *)

None == <<>>
Some(v) == <<v>>

Ok(x) == [tag |-> "Ok", val |-> x, err |-> ""]
Err(e) == [tag |-> "Err", val |-> <<>>, err |-> e]
Panic == [tag |-> "Panic", val |-> <<>>, err |-> "not implemented"]
Unit == <<>>

---------------------------------------------------------------------------
(* Serialization of values (to_vec / from_slice): a u64 is a JSON number, *)
(* a ChangeSet is the JSON object {"old": <number or null>}.  Bytes of the *)
(* one kind do not parse as the other.                                     *)

ToVecT(v) == [json |-> "num", body |-> <<v>>]
ToVecChangeSet(cs) == [json |-> "obj", body |-> cs.old]

FromSliceT(bytes) ==
    IF bytes.json = "num" THEN Ok(bytes.body[1]) ELSE Err("ParseErr")

FromSliceChangeSet(bytes) ==
    IF bytes.json = "obj" THEN Ok([old |-> bytes.body]) ELSE Err("ParseErr")

---------------------------------------------------------------------------
(* Key encoding *)

RECURSIVE BigEndian(_, _)
BigEndian(n, width) ==
    IF width = 0 THEN <<>>
    ELSE Append(BigEndian(n \div 256, width - 1), n % 256)

U64Key(height) == BigEndian(height, HeightBytes)

LengthPrefixed(part) == BigEndian(Len(part), LenBytes) \o part

(* key of Map<K, T>: the raw bytes of k *)
PrimaryKeyBytes(k) == k

(* key of Map<(K, U64Key), _>: k length-prefixed, then the height *)
CompositeKeyBytes(k, height) == LengthPrefixed(k) \o U64Key(height)

HasPrefix(s, p) == Len(p) <= Len(s) /\ SubSeq(s, 1, Len(p)) = p

Suffix(s, p) == SubSeq(s, Len(p) + 1, Len(s))

RECURSIVE LexLeq(_, _)
LexLeq(a, b) ==
    IF a = <<>> THEN TRUE
    ELSE IF b = <<>> THEN FALSE
    ELSE IF a[1] # b[1] THEN a[1] < b[1]
    ELSE LexLeq(Tail(a), Tail(b))

---------------------------------------------------------------------------
(* Map over the store *)

StorageKey(ns, keyBytes) == <<ns, keyBytes>>

StoreSet(s, sk, bytes) == (sk :> bytes) @@ s

StoreRemove(s, sk) == [x \in DOMAIN s \ {sk} |-> s[x]]

MapSaveT(s, ns, keyBytes, v) == StoreSet(s, StorageKey(ns, keyBytes), ToVecT(v))

MapSaveChangeSet(s, ns, keyBytes, cs) ==
    StoreSet(s, StorageKey(ns, keyBytes), ToVecChangeSet(cs))

MapRemove(s, ns, keyBytes) == StoreRemove(s, StorageKey(ns, keyBytes))

(* Map::may_load: Ok(None) when nothing is stored, the parsed value or a  *)
(* parse error otherwise                                                   *)
MapMayLoadT(s, ns, keyBytes) ==
    LET sk == StorageKey(ns, keyBytes) IN
    IF sk \notin DOMAIN s THEN Ok(None)
    ELSE LET r == FromSliceT(s[sk]) IN
         IF r.tag = "Ok" THEN Ok(Some(r.val)) ELSE r

(* Map::load: not found when nothing is stored *)
MapLoadT(s, ns, keyBytes) ==
    LET sk == StorageKey(ns, keyBytes) IN
    IF sk \notin DOMAIN s THEN Err("NotFound")
    ELSE LET r == FromSliceT(s[sk]) IN
         IF r.tag = "Ok" THEN Ok(Some(r.val)) ELSE r

(* Prefix::range(start inclusive, no end, ascending): the storage keys of *)
(* the namespace under the prefix whose remainder is >= start              *)
PrefixRange(s, ns, pfx, start) ==
    {sk \in DOMAIN s :
        /\ sk[1] = ns
        /\ HasPrefix(sk[2], pfx)
        /\ LexLeq(start, Suffix(sk[2], pfx))}

(* .next() of the ascending iterator: the entry with the least remainder *)
RangeFirst(s, ns, pfx, start) ==
    LET r == PrefixRange(s, ns, pfx, start) IN
    IF r = {} THEN <<>>
    ELSE <<CHOOSE sk \in r :
               \A other \in r : LexLeq(Suffix(sk[2], pfx), Suffix(other[2], pfx))>>

---------------------------------------------------------------------------
(* SnapshotMap *)

snapshot_names(var) ==
    [pk |-> var,
     checkpoints |-> var \o "__checkpoints",
     changelog |-> var \o "__changelog"]

new(namespaces, strategy) ==
    [primary |-> namespaces.pk,
     checkpoints |-> namespaces.checkpoints,
     changelog |-> namespaces.changelog,
     strategy |-> strategy]

NEVER == new(snapshot_names("never"), "Never")
EVERY == new(snapshot_names("every"), "EveryBlock")
SELECT == new(snapshot_names("select"), "Selected")

(* Outcome of a handler: what it returns and the store it leaves.  For     *)
(* update, also how often the closure was called and with what.            *)
Outcome(result, s) == [result |-> result, store |-> s, calls |-> 0, arg |-> None]

(* Variants of the code with one plausible slip each; the properties     *)
(* below are checked to tell them from the code.                           *)
is_checkpoint_never_true(m, s, k, height) ==
    CASE m.strategy = "EveryBlock" -> Ok(<<TRUE>>)
      [] m.strategy = "Selected" -> Panic
      [] m.strategy = "Never" -> Ok(<<TRUE>>)

is_checkpoint_selected_false(m, s, k, height) ==
    CASE m.strategy = "EveryBlock" -> Ok(<<TRUE>>)
      [] m.strategy = "Selected" -> Ok(<<FALSE>>)
      [] m.strategy = "Never" -> Ok(<<FALSE>>)

is_checkpoint(m, s, k, height) ==
    CASE m.strategy = "EveryBlock" -> Ok(<<TRUE>>)
      [] m.strategy = "Selected" -> Panic
      [] m.strategy = "Never" -> Ok(<<FALSE>>)

(* slip: load answers like may_load, absent instead of not found *)
load_as_may_load(m, s, k) == MapMayLoadT(s, m.primary, PrimaryKeyBytes(k))

load(m, s, k) == MapLoadT(s, m.primary, PrimaryKeyBytes(k))

may_load(m, s, k) == MapMayLoadT(s, m.primary, PrimaryKeyBytes(k))

(* slip: an entry already recorded at (k, height) is kept *)
write_change_keep_first(m, s, k, height) ==
    LET old == may_load(m, s, k) IN
    IF old.tag # "Ok" THEN Outcome(old, s)
    ELSE IF StorageKey(m.changelog, CompositeKeyBytes(k, height)) \in DOMAIN s
         THEN Outcome(Ok(Unit), s)
         ELSE Outcome(Ok(Unit),
                      MapSaveChangeSet(s, m.changelog, CompositeKeyBytes(k, height),
                                       [old |-> old.val]))

(* slip: records "no old value" without reading it *)
write_change_none(m, s, k, height) ==
    Outcome(Ok(Unit),
            MapSaveChangeSet(s, m.changelog, CompositeKeyBytes(k, height),
                             [old |-> None]))

write_change(m, s, k, height) ==
    LET old == may_load(m, s, k) IN
    IF old.tag # "Ok" THEN Outcome(old, s)
    ELSE Outcome(Ok(Unit),
                 MapSaveChangeSet(s, m.changelog, CompositeKeyBytes(k, height),
                                  [old |-> old.val]))

(* slip: the primary table is written before the strategy is asked *)
save_writes_then_checks(m, s, k, data, height) ==
    LET s1 == MapSaveT(s, m.primary, PrimaryKeyBytes(k), data)
        c == is_checkpoint(m, s1, k, height) IN
    IF c.tag # "Ok" THEN Outcome(c, s1)
    ELSE IF c.val[1]
         THEN Outcome(Ok(Unit),
                      MapSaveChangeSet(s1, m.changelog, CompositeKeyBytes(k, height),
                                       [old |-> may_load(m, s, k).val]))
         ELSE Outcome(Ok(Unit), s1)

(* slip: a write below a height already recorded for the key is refused *)
save_monotonic(m, s, k, data, height) ==
    LET c == is_checkpoint(m, s, k, height) IN
    IF c.tag # "Ok" THEN Outcome(c, s)
    ELSE IF PrefixRange(s, m.changelog, LengthPrefixed(k), U64Key(height + 1)) # {}
         THEN Outcome(Err("HeightRegression"), s)
    ELSE LET w == IF c.val[1] THEN write_change(m, s, k, height)
                  ELSE Outcome(Ok(Unit), s) IN
         IF w.result.tag # "Ok" THEN w
         ELSE Outcome(Ok(Unit), MapSaveT(w.store, m.primary, PrimaryKeyBytes(k), data))

(* slip: the checkpoint counter of the height is written as well *)
save_counts_checkpoint(m, s, k, data, height) ==
    LET c == is_checkpoint(m, s, k, height) IN
    IF c.tag # "Ok" THEN Outcome(c, s)
    ELSE LET w == IF c.val[1] THEN write_change(m, s, k, height)
                  ELSE Outcome(Ok(Unit), s) IN
         IF w.result.tag # "Ok" THEN w
         ELSE Outcome(Ok(Unit),
                      MapSaveT(MapSaveT(w.store, m.checkpoints, U64Key(height), 1),
                               m.primary, PrimaryKeyBytes(k), data))

save(m, s, k, data, height) ==
    LET c == is_checkpoint(m, s, k, height) IN
    IF c.tag # "Ok" THEN Outcome(c, s)
    ELSE LET w == IF c.val[1] THEN write_change(m, s, k, height)
                  ELSE Outcome(Ok(Unit), s) IN
         IF w.result.tag # "Ok" THEN w
         ELSE Outcome(Ok(Unit), MapSaveT(w.store, m.primary, PrimaryKeyBytes(k), data))

(* slip: the history of the removed key is deleted with it *)
remove_clears_history(m, s, k, height) ==
    LET c == is_checkpoint(m, s, k, height) IN
    IF c.tag # "Ok" THEN Outcome(c, s)
    ELSE LET gone == PrefixRange(s, m.changelog, LengthPrefixed(k), <<>>)
                         \cup {StorageKey(m.primary, PrimaryKeyBytes(k))} IN
         Outcome(Ok(Unit), [sk \in DOMAIN s \ gone |-> s[sk]])

(* slip: records the change but leaves the primary entry *)
remove_keeps_primary(m, s, k, height) ==
    LET c == is_checkpoint(m, s, k, height) IN
    IF c.tag # "Ok" THEN Outcome(c, s)
    ELSE IF c.val[1] THEN write_change(m, s, k, height)
         ELSE Outcome(Ok(Unit), s)

remove(m, s, k, height) ==
    LET c == is_checkpoint(m, s, k, height) IN
    IF c.tag # "Ok" THEN Outcome(c, s)
    ELSE LET w == IF c.val[1] THEN write_change(m, s, k, height)
                  ELSE Outcome(Ok(Unit), s) IN
         IF w.result.tag # "Ok" THEN w
         ELSE Outcome(Ok(Unit), MapRemove(w.store, m.primary, PrimaryKeyBytes(k)))

(* slip: Order::Descending, the entry of the greatest height is taken *)
may_load_at_height_descending(m, s, k, height) ==
    LET pfx == LengthPrefixed(k)
        r == PrefixRange(s, m.changelog, pfx, U64Key(height)) IN
    IF r # {} THEN
        LET last == CHOOSE sk \in r :
                        \A other \in r : LexLeq(Suffix(other[2], pfx), Suffix(sk[2], pfx))
            e == FromSliceChangeSet(s[last]) IN
        IF e.tag = "Ok" THEN Ok(e.val.old) ELSE e
    ELSE may_load(m, s, k)

(* slip: Bound::exclusive, the entry at the height itself is skipped *)
may_load_at_height_exclusive(m, s, k, height) ==
    LET start == U64Key(height + 1)
        first == RangeFirst(s, m.changelog, LengthPrefixed(k), start) IN
    IF first # <<>> THEN
        LET r == FromSliceChangeSet(s[first[1]]) IN
        IF r.tag = "Ok" THEN Ok(r.val.old) ELSE r
    ELSE may_load(m, s, k)

(* slip: no fallback to the current value *)
may_load_at_height_no_fallback(m, s, k, height) ==
    LET start == U64Key(height)
        first == RangeFirst(s, m.changelog, LengthPrefixed(k), start) IN
    IF first # <<>> THEN
        LET r == FromSliceChangeSet(s[first[1]]) IN
        IF r.tag = "Ok" THEN Ok(r.val.old) ELSE r
    ELSE Ok(None)

may_load_at_height(m, s, k, height) ==
    LET start == U64Key(height)
        first == RangeFirst(s, m.changelog, LengthPrefixed(k), start) IN
    IF first # <<>> THEN
        LET r == FromSliceChangeSet(s[first[1]]) IN
        IF r.tag = "Ok" THEN Ok(r.val.old) ELSE r
    ELSE may_load(m, s, k)

(* The closures passed to update: one that fails, and |_| Ok(out). *)
FailingAction == [fails |-> TRUE, out |-> 0]
ConstAction(v) == [fails |-> FALSE, out |-> v]
Actions == {FailingAction} \cup {ConstAction(v) : v \in Values}

ApplyAction(action, input) ==
    IF action.fails THEN Err("ActionError") ELSE Ok(<<action.out>>)

(* slip: the action is given None, not the value read *)
update_passes_none(m, s, k, height, action) ==
    LET input == may_load(m, s, k) IN
    IF input.tag # "Ok" THEN Outcome(input, s)
    ELSE
    LET diff == [old |-> input.val]
        output == ApplyAction(action, None)
        called == [calls |-> 1, arg |-> None] IN
    IF output.tag # "Ok" THEN called @@ Outcome(output, s)
    ELSE
    LET c == is_checkpoint(m, s, k, height) IN
    IF c.tag # "Ok" THEN called @@ Outcome(c, s)
    ELSE
    LET s1 == IF c.val[1]
              THEN MapSaveChangeSet(s, m.changelog, CompositeKeyBytes(k, height), diff)
              ELSE s
        s2 == MapSaveT(s1, m.primary, PrimaryKeyBytes(k), output.val[1]) IN
    called @@ Outcome(output, s2)

(* slip: the changelog is written without asking the strategy *)
update_always_checkpoints(m, s, k, height, action) ==
    LET input == may_load(m, s, k) IN
    IF input.tag # "Ok" THEN Outcome(input, s)
    ELSE
    LET diff == [old |-> input.val]
        output == ApplyAction(action, input.val)
        called == [calls |-> 1, arg |-> input.val] IN
    IF output.tag # "Ok" THEN called @@ Outcome(output, s)
    ELSE
    LET s1 == MapSaveChangeSet(s, m.changelog, CompositeKeyBytes(k, height), diff)
        s2 == MapSaveT(s1, m.primary, PrimaryKeyBytes(k), output.val[1]) IN
    called @@ Outcome(output, s2)

(* slip: the changelog is written before the action is called *)
update_logs_before_action(m, s, k, height, action) ==
    LET input == may_load(m, s, k) IN
    IF input.tag # "Ok" THEN Outcome(input, s)
    ELSE
    LET diff == [old |-> input.val]
        c == is_checkpoint(m, s, k, height) IN
    IF c.tag # "Ok" THEN Outcome(c, s)
    ELSE
    LET s1 == IF c.val[1]
              THEN MapSaveChangeSet(s, m.changelog, CompositeKeyBytes(k, height), diff)
              ELSE s
        output == ApplyAction(action, input.val)
        called == [calls |-> 1, arg |-> input.val] IN
    IF output.tag # "Ok" THEN called @@ Outcome(output, s1)
    ELSE called @@ Outcome(output,
                           MapSaveT(s1, m.primary, PrimaryKeyBytes(k), output.val[1]))

(* slip: the change set is built from the output, not from the input *)
update_diff_output(m, s, k, height, action) ==
    LET input == may_load(m, s, k) IN
    IF input.tag # "Ok" THEN Outcome(input, s)
    ELSE
    LET output == ApplyAction(action, input.val)
        diff == [old |-> output.val]
        called == [calls |-> 1, arg |-> input.val] IN
    IF output.tag # "Ok" THEN called @@ Outcome(output, s)
    ELSE
    LET c == is_checkpoint(m, s, k, height) IN
    IF c.tag # "Ok" THEN called @@ Outcome(c, s)
    ELSE
    LET s1 == IF c.val[1]
              THEN MapSaveChangeSet(s, m.changelog, CompositeKeyBytes(k, height), diff)
              ELSE s
        s2 == MapSaveT(s1, m.primary, PrimaryKeyBytes(k), output.val[1]) IN
    called @@ Outcome(output, s2)

update(m, s, k, height, action) ==
    LET input == may_load(m, s, k) IN
    IF input.tag # "Ok" THEN Outcome(input, s)
    ELSE
    LET diff == [old |-> input.val]
        output == ApplyAction(action, input.val)
        called == [calls |-> 1, arg |-> input.val] IN
    IF output.tag # "Ok" THEN called @@ Outcome(output, s)
    ELSE
    LET c == is_checkpoint(m, s, k, height) IN
    IF c.tag # "Ok" THEN called @@ Outcome(c, s)
    ELSE
    LET s1 == IF c.val[1]
              THEN MapSaveChangeSet(s, m.changelog, CompositeKeyBytes(k, height), diff)
              ELSE s
        s2 == MapSaveT(s1, m.primary, PrimaryKeyBytes(k), output.val[1]) IN
    called @@ Outcome(output, s2)

---------------------------------------------------------------------------
(* The calls *)

NoCall ==
    [inst |-> 0, op |-> "none", key |-> <<>>, height |-> 0, data |-> None,
     fails |-> FALSE, result |-> Ok(Unit), calls |-> 0, arg |-> None]

Call(i, op, k, height, data, fails, out) ==
    [inst |-> i, op |-> op, key |-> k, height |-> height, data |-> data,
     fails |-> fails, result |-> out.result, calls |-> out.calls, arg |-> out.arg]

(* a completed write: the instance, the key, the height and the value it  *)
(* installed (None for remove)                                             *)
Written(i, k, height, installed) ==
    [inst |-> i, key |-> k, height |-> height, new |-> installed]

Record(call, out, installed) ==
    /\ store' = out.store
    /\ lastCall' = call
    /\ log' = IF out.result.tag = "Ok"
              THEN Append(log, Written(call.inst, call.key, call.height, installed))
              ELSE log
    /\ nops' = nops + 1
    /\ UNCHANGED maps

Save(i, k, data, height) ==
    /\ nops < MaxOps
    /\ LET out == save(maps[i], store, k, data, height) IN
       Record(Call(i, "save", k, height, Some(data), FALSE, out), out, Some(data))

Remove(i, k, height) ==
    /\ nops < MaxOps
    /\ LET out == remove(maps[i], store, k, height) IN
       Record(Call(i, "remove", k, height, None, FALSE, out), out, None)

Update(i, k, height, action) ==
    /\ nops < MaxOps
    /\ LET out == update(maps[i], store, k, height, action) IN
       Record(Call(i, "update", k, height,
                   IF action.fails THEN None ELSE Some(action.out), action.fails, out),
              out, out.result.val)

(* The reads take the store by shared reference: they return a value and *)
(* leave the store as it is.                                               *)
RecordRead(call) ==
    /\ lastCall' = call
    /\ nops' = nops + 1
    /\ UNCHANGED <<store, maps, log>>

Load(i, k) ==
    /\ nops < MaxOps
    /\ RecordRead(Call(i, "load", k, 0, None, FALSE,
                       Outcome(load(maps[i], store, k), store)))

MayLoad(i, k) ==
    /\ nops < MaxOps
    /\ RecordRead(Call(i, "may_load", k, 0, None, FALSE,
                       Outcome(may_load(maps[i], store, k), store)))

MayLoadAtHeight(i, k, height) ==
    /\ nops < MaxOps
    /\ RecordRead(Call(i, "may_load_at_height", k, height, None, FALSE,
                       Outcome(may_load_at_height(maps[i], store, k, height), store)))

Init ==
    /\ store = <<>>
    /\ maps \in {<<NEVER>>, <<EVERY>>, <<SELECT>>}
    /\ log = <<>>
    /\ lastCall = NoCall
    /\ nops = 0

DoSave(K) ==
    \E i \in DOMAIN maps, k \in K, height \in Heights, data \in Values :
        Save(i, k, data, height)

DoRemove(K) ==
    \E i \in DOMAIN maps, k \in K, height \in Heights : Remove(i, k, height)

DoUpdate(K) ==
    \E i \in DOMAIN maps, k \in K, height \in Heights, action \in Actions :
        Update(i, k, height, action)

DoLoad(K) == \E i \in DOMAIN maps, k \in K : Load(i, k)

DoMayLoad(K) == \E i \in DOMAIN maps, k \in K : MayLoad(i, k)

DoMayLoadAtHeight(K) ==
    \E i \in DOMAIN maps, k \in K, height \in QueryHeights :
        MayLoadAtHeight(i, k, height)

Next ==
    \/ DoSave(Keys)
    \/ DoRemove(Keys)
    \/ DoUpdate(Keys)
    \/ DoLoad(Keys)
    \/ DoMayLoad(Keys)
    \/ DoMayLoadAtHeight(Keys)

Spec == Init /\ [][Next]_vars

(* Two instances of different base names over one store.  The keys are   *)
(* byte strings (K = &[u8]); among them one whose bytes are those of a    *)
(* changelog key.                                                          *)
BaseNames == {"demo__changelog", "demo__checkpoints", "other"}

KeysNS == {KeyA, CompositeKeyBytes(KeyA, 1)}

InitNS ==
    /\ store = <<>>
    /\ \E base \in BaseNames, strategy \in {"EveryBlock", "Never"} :
           maps = <<new(snapshot_names("demo"), "EveryBlock"),
                    new(snapshot_names(base), strategy)>>
    /\ log = <<>>
    /\ lastCall = NoCall
    /\ nops = 0

NextNS ==
    \/ DoSave(KeysNS)
    \/ DoRemove(KeysNS)
    \/ DoUpdate(KeysNS)
    \/ DoLoad(KeysNS)
    \/ DoMayLoad(KeysNS)
    \/ DoMayLoadAtHeight(KeysNS)

SpecNS == InitNS /\ [][NextNS]_vars

(* Any contents of the tables, however produced: up to MaxEntries         *)
(* changelog entries at any (key, height) with any old value, and any     *)
(* primary values; then one historical read.                               *)
MaxEntries == 2

OptionValues == {None} \cup {Some(v) : v \in Values}

TablesOf(m, entries, olds, prim) ==
    LET present == {k \in Keys : prim[k] # None}
        clKey(e) == StorageKey(m.changelog, CompositeKeyBytes(e[1], e[2]))
        pkKey(k) == StorageKey(m.primary, PrimaryKeyBytes(k)) IN
    [sk \in {clKey(e) : e \in entries} \cup {pkKey(k) : k \in present} |->
        IF sk[1] = m.changelog
        THEN ToVecChangeSet([old |-> olds[CHOOSE e \in entries : clKey(e) = sk]])
        ELSE ToVecT(prim[CHOOSE k \in present : pkKey(k) = sk][1])]

InitAny ==
    /\ maps = <<EVERY>>
    /\ \E entries \in SUBSET (Keys \X Heights) :
           /\ Cardinality(entries) <= MaxEntries
           /\ \E olds \in [entries -> OptionValues], prim \in [Keys -> OptionValues] :
                  store = TablesOf(EVERY, entries, olds, prim)
    /\ log = <<>>
    /\ lastCall = NoCall
    /\ nops = 0

NextAny == nops = 0 /\ DoMayLoadAtHeight(Keys)

SpecAny == InitAny /\ [][NextAny]_vars

(* The tests' EVERY and SELECT instances over one store: the calls        *)
(* through SELECT meet the entries the calls through EVERY left.           *)
InitSel ==
    /\ store = <<>>
    /\ maps = <<EVERY, SELECT>>
    /\ log = <<>>
    /\ lastCall = NoCall
    /\ nops = 0

NextSel ==
    \/ DoSave(Keys)
    \/ DoRemove(Keys)
    \/ DoUpdate(Keys)

SpecSel == InitSel /\ [][NextSel]_vars

---------------------------------------------------------------------------
(* What the recorded calls say, computed from the calls' arguments alone *)

IsWrite(call) == call.op \in {"save", "remove", "update"}

Max(S) == CHOOSE x \in S : \A y \in S : y <= x

(* positions in the log of the writes of key k through instance i *)
WritesOf(i, k) == {n \in 1..Len(log) : log[n].inst = i /\ log[n].key = k}

(* the value the writes before position n left key k with *)
ValueBefore(i, k, n) ==
    LET W == {w \in WritesOf(i, k) : w < n} IN
    IF W = {} THEN None ELSE log[Max(W)].new

LastWritten(i, k) == ValueBefore(i, k, Len(log) + 1)

(* heights never decrease from one write to the next, and no key is       *)
(* written twice at one height                                             *)
Disciplined ==
    \A a, b \in 1..Len(log) :
        a < b =>
            /\ log[a].height <= log[b].height
            /\ (log[a].inst = log[b].inst /\ log[a].key = log[b].key)
                   => log[a].height < log[b].height

(* the value in force at height h: what the last write below h installed *)
InForce(i, k, h) ==
    LET W == {w \in WritesOf(i, k) : log[w].height < h} IN
    IF W = {} THEN None ELSE log[Max(W)].new

(* the changelog entry at (k, h): <<>> when there is none, <<r>> with r   *)
(* the parse result otherwise                                              *)
ChangelogEntry(m, s, k, h) ==
    LET sk == StorageKey(m.changelog, CompositeKeyBytes(k, h)) IN
    IF sk \in DOMAIN s THEN <<FromSliceChangeSet(s[sk])>> ELSE <<>>

TableKeys(s, ns) == {sk \in DOMAIN s : sk[1] = ns}

EveryBlockMaps == {i \in DOMAIN maps : maps[i].strategy = "EveryBlock"}
NeverMaps == {i \in DOMAIN maps : maps[i].strategy = "Never"}
SelectedMaps == {i \in DOMAIN maps : maps[i].strategy = "Selected"}

---------------------------------------------------------------------------
(* C1: under EveryBlock, after writes at non-decreasing heights with each *)
(* key written at most once per height, may_load_at_height(k, h) is the   *)
(* value in force at h: absent when k has no write below h, else what the *)
(* last write below h installed; and it is the current primary value when *)
(* k has no write at a height >= h.                                        *)
C1_HistoricalReads ==
    \A i \in EveryBlockMaps :
        Disciplined =>
            \A k \in Keys, h \in QueryHeights :
                /\ may_load_at_height(maps[i], store, k, h) = Ok(InForce(i, k, h))
                /\ (\A w \in WritesOf(i, k) : log[w].height < h)
                       => may_load_at_height(maps[i], store, k, h)
                              = may_load(maps[i], store, k)

(* two writes of one key, two heights apart, installing different values: *)
(* there are heights before the first, between the two and after the last *)
C1_Witness ==
    /\ EveryBlockMaps # {}
    /\ Disciplined
    /\ Len(log) = 2
    /\ log[1].key = KeyA /\ log[2].key = KeyA
    /\ log[2].height >= log[1].height + 2
    /\ log[1].new # None /\ log[2].new # None
    /\ log[1].new # log[2].new

(* C2: for every strategy the primary table holds, for each key, what the *)
(* last completed save or update gave it, and nothing after a remove or   *)
(* when the key was never written; load agrees with may_load.              *)
C2_PrimaryIsLastWrite ==
    \A i \in DOMAIN maps, k \in Keys :
        /\ may_load(maps[i], store, k) = Ok(LastWritten(i, k))
        /\ load(maps[i], store, k) =
               IF LastWritten(i, k) = None THEN Err("NotFound")
               ELSE Ok(LastWritten(i, k))

C2_Witness ==
    /\ lastCall.op = "remove" /\ lastCall.result.tag = "Ok"
    /\ Cardinality(WritesOf(lastCall.inst, lastCall.key)) = 2
    /\ log[1].new # None

(* C3 (amended): under EveryBlock, for every (k, H) with a recorded write, *)
(* the changelog entry at (k, H) holds the value k had right before the   *)
(* most recent write of k at H.                                            *)
C3_ChangelogHoldsPreImage ==
    \A i \in EveryBlockMaps, k \in Keys, H \in Heights :
        LET W == {w \in WritesOf(i, k) : log[w].height = H} IN
        W # {} =>
            ChangelogEntry(maps[i], store, k, H)
                = <<Ok([old |-> ValueBefore(i, k, Max(W))])>>

(* C3 as stated: under EveryBlock, for every recorded write of k at H the *)
(* changelog entry at (k, H) holds the value k had right before that      *)
(* write.                                                                  *)
C3_Original ==
    \A i \in EveryBlockMaps, k \in Keys :
        \A w \in WritesOf(i, k) :
            ChangelogEntry(maps[i], store, k, log[w].height)
                = <<Ok([old |-> ValueBefore(i, k, w)])>>

(* a save and then an update of one key, at two heights *)
C3_Witness ==
    /\ EveryBlockMaps # {}
    /\ Len(log) = 2
    /\ log[1].key = KeyA /\ log[2].key = KeyA
    /\ log[1].height # log[2].height
    /\ lastCall.op = "update" /\ lastCall.result.tag = "Ok"
    /\ log[1].new # None /\ log[1].new # log[2].new

(* C4: under Never no call ever writes a changelog entry *)
C4_NeverHasNoChangelog ==
    \A i \in NeverMaps : TableKeys(store, maps[i].changelog) = {}

C4_Witness ==
    /\ NeverMaps # {}
    /\ Len(log) = 2
    /\ log[1].new = None /\ log[2].new # None
    /\ lastCall.op = "update" /\ lastCall.result.tag = "Ok"
    /\ store # <<>>

(* C5: under Never, may_load_at_height(k, h) is may_load(k) for every key *)
(* and height                                                              *)
C5_NeverReadsCurrent ==
    \A i \in NeverMaps, k \in Keys, h \in QueryHeights :
        may_load_at_height(maps[i], store, k, h) = may_load(maps[i], store, k)

(* a key saved and then given another value at a higher height *)
C5_Witness ==
    /\ NeverMaps # {}
    /\ Len(log) = 2
    /\ log[1].key = log[2].key
    /\ log[1].height < log[2].height
    /\ log[1].new # None /\ log[2].new # None
    /\ log[1].new # log[2].new

(* C6: under EveryBlock, right after the only write of k at height h, k   *)
(* having no write above h, may_load_at_height(k, h) is the value k had   *)
(* before the write and may_load_at_height(k, h + 1) the value the write  *)
(* installed (absent for a remove).                                        *)
C6_Boundary ==
    \A i \in EveryBlockMaps :
        LET k == lastCall.key
            h == lastCall.height IN
        ( /\ lastCall.inst = i
          /\ IsWrite(lastCall)
          /\ lastCall.result.tag = "Ok"
          /\ Cardinality({w \in WritesOf(i, k) : log[w].height = h}) = 1
          /\ \A w \in WritesOf(i, k) : log[w].height <= h )
        =>
          /\ may_load_at_height(maps[i], store, k, h)
                 = Ok(ValueBefore(i, k, Len(log)))
          /\ may_load_at_height(maps[i], store, k, h + 1) = Ok(log[Len(log)].new)

(* a remove of a key holding a value, at a height above its earlier write *)
C6_Witness ==
    /\ EveryBlockMaps # {}
    /\ lastCall.op = "remove" /\ lastCall.result.tag = "Ok"
    /\ ValueBefore(1, lastCall.key, Len(log)) # None
    /\ \A w \in WritesOf(1, lastCall.key) :
           w < Len(log) => log[w].height < lastCall.height

(* C7: an update whose action fails writes nothing (no changelog entry,   *)
(* no primary write: the store is as before) and returns the action's     *)
(* error.                                                                  *)
C7_FailedUpdateWritesNothing ==
    [][ (lastCall'.op = "update" /\ lastCall'.fails)
            => /\ store' = store
               /\ log' = log
               /\ lastCall'.result = Err("ActionError") ]_vars

(* a failed update of a key that holds a value, under EveryBlock *)
C7_Witness ==
    /\ EveryBlockMaps # {}
    /\ lastCall.op = "update" /\ lastCall.fails
    /\ lastCall.result = Err("ActionError")
    /\ lastCall.arg # None
    /\ may_load(maps[1], store, lastCall.key) = Ok(lastCall.arg)

(* C8: for any strategy, from a state where k has no primary value,       *)
(* update(k, h, |_| Ok(v)) leaves the store as save(k, v, h) would.        *)
C8_UpdateAsSave ==
    [][ \A v \in Values :
          ( /\ lastCall'.op = "update"
            /\ ~lastCall'.fails
            /\ lastCall'.data = Some(v)
            /\ may_load(maps[lastCall'.inst], store, lastCall'.key) = Ok(None) )
          => LET would == save(maps[lastCall'.inst], store, lastCall'.key, v,
                               lastCall'.height) IN
             /\ store' = would.store
             /\ lastCall'.result.tag = would.result.tag ]_vars

(* a successful update of an absent key under EveryBlock, other entries   *)
(* being in the store already                                              *)
C8_Witness ==
    /\ EveryBlockMaps # {}
    /\ lastCall.op = "update" /\ lastCall.result.tag = "Ok"
    /\ lastCall.arg = None
    /\ Len(log) >= 2

(* C9: under Selected no save, remove or update returns success, and none *)
(* applies its primary write.                                              *)
C9_SelectedFails ==
    \A i \in SelectedMaps :
        /\ (lastCall.inst = i /\ IsWrite(lastCall)) => lastCall.result.tag # "Ok"
        /\ TableKeys(store, maps[i].primary) = {}

C9_Witness ==
    /\ SelectedMaps # {}
    /\ nops >= 2
    /\ lastCall.op = "save"
    /\ lastCall.result = Panic

(* what can be read through instance j *)
Reads(j, s) ==
    [x \in KeysNS \X QueryHeights |->
        <<load(maps[j], s, x[1]),
          may_load(maps[j], s, x[1]),
          may_load_at_height(maps[j], s, x[1], x[2])>>]

(* C10: no save, remove or update through one instance changes what any  *)
(* load, may_load or may_load_at_height through an instance of another    *)
(* base name returns, the base names <name>__changelog and                *)
(* <name>__checkpoints included.                                           *)
C10_NamespaceIsolation ==
    [][ \A j \in DOMAIN maps :
            j # lastCall'.inst => Reads(j, store') = Reads(j, store) ]_vars

(* the primary table of instance m alone: the store without the entries  *)
(* of every other namespace                                                *)
PrimaryTable(m, s) == [sk \in TableKeys(s, m.primary) |-> s[sk]]

(* C11: load(k) fails with not-found exactly when may_load(k) is absent   *)
(* and returns may_load's value otherwise; both are decided by the        *)
(* primary table alone, whatever the changelog and checkpoint tables hold. *)
C11_CurrentReads ==
    \A i \in DOMAIN maps, k \in Keys :
        LET ml == may_load(maps[i], store, k)
            l == load(maps[i], store, k) IN
        /\ (ml = Ok(None)) <=> (l = Err("NotFound"))
        /\ (ml.tag = "Ok" /\ ml.val # None) => l = Ok(ml.val)
        /\ l = load(maps[i], PrimaryTable(maps[i], store), k)
        /\ ml = may_load(maps[i], PrimaryTable(maps[i], store), k)

(* a load of a key that holds a value while the changelog records it as   *)
(* absent, another key being absent                                        *)
C11_Witness ==
    /\ EveryBlockMaps # {}
    /\ lastCall.op = "load"
    /\ lastCall.result.tag = "Ok" /\ lastCall.result.val # None
    /\ \E h \in Heights :
           ChangelogEntry(maps[1], store, lastCall.key, h) = <<Ok([old |-> None])>>
    /\ \E k \in Keys : load(maps[1], store, k) = Err("NotFound")

Min(S) == CHOOSE x \in S : \A y \in S : x <= y

(* what the tables say may_load_at_height(k, h) is: the old value of the  *)
(* entry of k with the least height >= h, the current value without one   *)
OldestAtOrAfter(m, s, k, h) ==
    LET E == {H \in Heights : H >= h /\ ChangelogEntry(m, s, k, H) # <<>>} IN
    IF E # {} THEN Ok(ChangelogEntry(m, s, k, Min(E))[1].val.old)
    ELSE may_load(m, s, k)

(* C12: for any contents of the tables, may_load_at_height(k, h) returns  *)
(* the old value of the changelog entry of k with the smallest height     *)
(* >= h (an entry at h itself counts), whatever other keys' entries hold, *)
(* and the current primary value of k when k has no such entry.           *)
C12_ScanSemantics ==
    lastCall.op = "may_load_at_height" =>
        lastCall.result
            = OldestAtOrAfter(maps[lastCall.inst], store, lastCall.key,
                              lastCall.height)

(* a read at the height of the lower of two entries of one key that hold  *)
(* different old values, neither being the current value                   *)
C12_Witness ==
    /\ lastCall.op = "may_load_at_height"
    /\ \E h2 \in Heights :
           /\ lastCall.height < h2
           /\ ChangelogEntry(maps[1], store, lastCall.key, lastCall.height) # <<>>
           /\ ChangelogEntry(maps[1], store, lastCall.key, h2) # <<>>
           /\ ChangelogEntry(maps[1], store, lastCall.key, h2)
                  # ChangelogEntry(maps[1], store, lastCall.key, lastCall.height)
    /\ ChangelogEntry(maps[1], store, lastCall.key, lastCall.height)
           = <<Ok([old |-> lastCall.result.val])>>
    /\ may_load(maps[1], store, lastCall.key) # lastCall.result

(* the changelog entries of key k: the storage keys under k's prefix *)
ChangelogKeysOf(m, s, k) ==
    {sk \in TableKeys(s, m.changelog) : HasPrefix(sk[2], LengthPrefixed(k))}

(* C13: under EveryBlock, when k is written twice at one height h (with   *)
(* no write of k in between), the entry (k, h) holds as old value what    *)
(* the first of the two installed, not what k held before it; k has one   *)
(* entry per height written, so the first pre-image is recorded nowhere.  *)
C13_DuplicateOverwrites ==
    \A i \in EveryBlockMaps, k \in Keys, h \in Heights :
        LET W == {w \in WritesOf(i, k) : log[w].height = h} IN
        Cardinality(W) >= 2 =>
            LET second == Max(W)
                first == Max(W \ {second}) IN
            /\ (\A w \in WritesOf(i, k) : ~(first < w /\ w < second))
                   => ChangelogEntry(maps[i], store, k, h)
                          = <<Ok([old |-> log[first].new])>>
            /\ Cardinality(ChangelogKeysOf(maps[i], store, k))
                   = Cardinality({log[w].height : w \in WritesOf(i, k)})

(* two saves of one key at one height, of different values: the entry     *)
(* holds the first value, the key was absent before                        *)
C13_Witness ==
    /\ EveryBlockMaps # {}
    /\ Len(log) = 2
    /\ log[1].key = log[2].key /\ log[1].height = log[2].height
    /\ log[1].new # None /\ log[2].new # None /\ log[1].new # log[2].new
    /\ lastCall.op = "save"
    /\ ChangelogEntry(maps[1], store, log[1].key, log[1].height)
           # <<Ok([old |-> None])>>

(* the storage keys a write of k at height may touch *)
Footprint(m, k, height) ==
    {StorageKey(m.primary, PrimaryKeyBytes(k)),
     StorageKey(m.changelog, CompositeKeyBytes(k, height))}

(* C14: under EveryBlock or Never a save, remove or update of k at h      *)
(* changes at most the primary entry of k and the changelog entry (k, h): *)
(* every other entry is there before and after with the same bytes; and   *)
(* no operation writes the checkpoint table.                               *)
C14_WriteFootprint ==
    [][ /\ ( /\ IsWrite(lastCall')
             /\ maps[lastCall'.inst].strategy \in {"EveryBlock", "Never"} )
           => LET touched == Footprint(maps[lastCall'.inst], lastCall'.key,
                                       lastCall'.height) IN
              \A sk \in (DOMAIN store \cup DOMAIN store') \ touched :
                  /\ sk \in DOMAIN store
                  /\ sk \in DOMAIN store'
                  /\ store'[sk] = store[sk]
        /\ \A i \in DOMAIN maps : TableKeys(store', maps[i].checkpoints) = {} ]_vars

(* a save of one key after a write of the other key, under EveryBlock *)
C14_Witness ==
    /\ EveryBlockMaps # {}
    /\ Len(log) = 2
    /\ log[1].key # log[2].key
    /\ log[1].new # None
    /\ lastCall.op = "save" /\ lastCall.result.tag = "Ok"
    /\ Cardinality(DOMAIN store) = 4

(* this step is an update that called its action once, with the value    *)
(* the primary table held for the key before the step                      *)
ActionCalledOnceWithCurrent ==
    /\ lastCall'.calls = 1
    /\ Ok(lastCall'.arg) = may_load(maps[lastCall'.inst], store, lastCall'.key)

(* this step's update returned its action's output, the primary table     *)
(* holds it, and under EveryBlock the entry (k, h) holds the action's     *)
(* argument                                                                *)
UpdateApplied ==
    LET m == maps[lastCall'.inst] IN
    /\ lastCall'.result = Ok(lastCall'.data)
    /\ may_load(m, store', lastCall'.key) = Ok(lastCall'.data)
    /\ m.strategy = "EveryBlock" =>
           ChangelogEntry(m, store', lastCall'.key, lastCall'.height)
               = <<Ok([old |-> lastCall'.arg])>>

(* C15 as stated: update calls action exactly once with the current       *)
(* value; when action succeeds with v, update returns v, the primary      *)
(* table holds v, and under EveryBlock the entry (k, h) holds the value    *)
(* passed to action.                                                       *)
C15_Original ==
    [][ lastCall'.op = "update" =>
          /\ ActionCalledOnceWithCurrent
          /\ ~lastCall'.fails => UpdateApplied ]_vars

(* C15 (amended): update calls action exactly once with the current       *)
(* value; under EveryBlock or Never, when action succeeds with v, update  *)
(* returns v, the primary table holds v, and under EveryBlock the entry   *)
(* (k, h) holds the value passed to action; under Selected update does    *)
(* not return after the action and writes nothing.                         *)
C15_UpdateContract ==
    [][ lastCall'.op = "update" =>
          /\ ActionCalledOnceWithCurrent
          /\ (~lastCall'.fails
                /\ maps[lastCall'.inst].strategy \in {"EveryBlock", "Never"})
                 => UpdateApplied
          /\ (~lastCall'.fails /\ maps[lastCall'.inst].strategy = "Selected")
                 => (lastCall'.result = Panic /\ store' = store) ]_vars

(* a successful update, under EveryBlock, of a key that held another      *)
(* value                                                                   *)
C15_Witness ==
    /\ EveryBlockMaps # {}
    /\ lastCall.op = "update" /\ lastCall.result.tag = "Ok"
    /\ lastCall.calls = 1
    /\ lastCall.arg # None /\ lastCall.arg # lastCall.data
    /\ may_load(maps[1], store, lastCall.key) = Ok(lastCall.data)

(* the writes of k completed before the last call *)
EarlierWrites(i, k) ==
    IF IsWrite(lastCall) /\ lastCall.result.tag = "Ok"
    THEN {w \in WritesOf(i, k) : w < Len(log)}
    ELSE WritesOf(i, k)

(* C16: under EveryBlock a save, remove or update (with a succeeding      *)
(* action) of k at a height below that of an earlier write of k succeeds, *)
(* applies its primary mutation and records the changelog entry at that   *)
(* lower height.                                                           *)
C16_NoMonotonicityCheck ==
    \A i \in EveryBlockMaps :
        LET k == lastCall.key
            h == lastCall.height
            E == EarlierWrites(i, k) IN
        ( /\ lastCall.inst = i
          /\ IsWrite(lastCall) /\ ~lastCall.fails
          /\ \E w \in E : log[w].height > h )
        =>
          /\ lastCall.result.tag = "Ok"
          /\ may_load(maps[i], store, k) = Ok(lastCall.data)
          /\ ChangelogEntry(maps[i], store, k, h)
                 = <<Ok([old |-> log[Max(E)].new])>>

(* a save of a key at a height below its earlier save *)
C16_Witness ==
    /\ EveryBlockMaps # {}
    /\ Len(log) = 2
    /\ log[1].key = log[2].key
    /\ log[1].height > log[2].height
    /\ log[1].new # None
    /\ lastCall.op = "save" /\ lastCall.result.tag = "Ok"
    /\ Cardinality(ChangelogKeysOf(maps[1], store, lastCall.key)) = 2

(* C17: under Selected a failing save, remove or update leaves the store *)
(* (primary, changelog and checkpoint tables) exactly as it was.           *)
C17_SelectedWritesNothing ==
    [][ ( /\ IsWrite(lastCall')
          /\ maps[lastCall'.inst].strategy = "Selected"
          /\ lastCall'.result.tag # "Ok" )
        => /\ store' = store
           /\ log' = log ]_vars

(* a save through the Selected instance that failed, the store holding    *)
(* entries of the other instance                                           *)
C17_Witness ==
    /\ SelectedMaps # {}
    /\ lastCall.inst \in SelectedMaps
    /\ lastCall.op = "save"
    /\ lastCall.result = Panic
    /\ Cardinality(DOMAIN store) >= 2

(* C18: the changelog only grows: every step of every operation (save,  *)
(* remove, update, load, may_load, may_load_at_height) keeps each         *)
(* changelog entry that was there, and remove deletes nothing but the     *)
(* primary entry of its key.                                               *)
C18_ChangelogOnlyGrows ==
    [][ /\ \A i \in DOMAIN maps :
               TableKeys(store, maps[i].changelog)
                   \subseteq TableKeys(store', maps[i].changelog)
        /\ lastCall'.op = "remove" =>
               DOMAIN store \ DOMAIN store'
                   \subseteq {StorageKey(maps[lastCall'.inst].primary,
                                         PrimaryKeyBytes(lastCall'.key))} ]_vars

(* a remove, under EveryBlock, of a key that held a value: the primary    *)
(* entry is gone, the key's two changelog entries are there                *)
C18_Witness ==
    /\ EveryBlockMaps # {}
    /\ lastCall.op = "remove" /\ lastCall.result.tag = "Ok"
    /\ Len(log) = 2 /\ log[1].key = log[2].key /\ log[1].new # None
    /\ may_load(maps[1], store, lastCall.key) = Ok(None)
    /\ Cardinality(ChangelogKeysOf(maps[1], store, lastCall.key)) = 2

====
